---- MODULE Spec2Model ----
(***************************************************************************)
(* RainCache MessageCache (src/src/cache/MessageCache.js): the bound /     *)
(* unbound entity cache over a storage engine and a per-namespace index.   *)
(* Every async method is cut at its awaits: the code up to the first await *)
(* runs with the call, the code between two awaits runs when the awaited   *)
(* collaborator call settles.  pc[p] names the line a call is awaiting at. *)
(***************************************************************************)
EXTENDS Integers, Sequences, FiniteSets, TLC

VARIABLES
    storage,      \* storage engine contents: key -> entity
    index,        \* the namespace's index: set of ids
    boundObject,  \* per cache instance: this.boundObject (Null when unbound)
    pc,           \* per caller: "idle", the awaited line, or "done"
    frame,        \* per caller: the running call (op, this, id, data, fn, ids, depth)
    result,       \* per caller: what the settled call's promise holds
    log,          \* per caller: collaborator calls issued / settled by the running call
    calls,        \* number of calls started so far
    overlap,      \* history: two update/remove calls on one id were in flight together
    failed,       \* history: some backend call failed
    met,          \* per caller: the ops of the other update/remove calls on its id
                  \* that were in flight together with the running one
    quiet         \* per id: the last update/remove completed alone on it, if nothing followed

vars == <<storage, index, boundObject, pc, frame, result, log, calls, overlap,
          failed, met, quiet>>

----------------------------------------------------------------------------
(* Bounds *)

MaxCalls == 2     \* calls started in one behaviour
MaxStack == 3     \* nested synchronous calls the engine's stack holds

Procs == {"p1", "p2"}          \* concurrent callers
Insts == {"cu", "cb"}          \* cache instances: constructed unbound / bound
Ids == {"1", "2"}              \* message ids
Contents == {"a", "b"}         \* message payloads

----------------------------------------------------------------------------
(* Values *)

Undefined == "undefined"                       \* a missing id field
Null == [kind |-> "null"]
DataIds == Ids \cup {Undefined}
Entities == [kind : {"object"}, id : DataIds, content : Contents]
Message(i, content) == [kind |-> "object", id |-> i, content |-> content]
Arr(s) == [kind |-> "array", items |-> s]
Fns == {{"a"}}                                 \* a predicate: the payloads it accepts
IdLists == {Null, Arr(<<"2", "1">>)}

Falsy(v) == v \in {Undefined, ""}              \* !data.id
Truthy(obj) == obj # Null                      \* if (boundObject), if (message)

namespace == "message"

\* buildId without the message id
buildId_dropsId(messageId) == namespace \o "."

buildId(messageId) == namespace \o "." \o messageId

RangeError == [kind |-> "error", name |-> "RangeError", from |-> "stack"]
BackendError(f) == [kind |-> "error", name |-> "BackendFailure", from |-> f]
Completion == [kind |-> "completion"]
NoResult == [kind |-> "none"]
None == [op |-> "none"]
NoFrame == [op |-> "none", this |-> "cu", id |-> Undefined, data |-> Null,
            given |-> Null, fn |-> {}, ids |-> Null, depth |-> 0]

----------------------------------------------------------------------------
(* Collaborators: the storage engine and the index *)

storageEngine_get(key) == IF key \in DOMAIN storage THEN storage[key] ELSE Null

storageEngine_upsert(key, entity) ==
    [k \in DOMAIN storage \cup {key} |-> IF k = key THEN entity ELSE storage[k]]

storageEngine_remove(key) == [k \in DOMAIN storage \ {key} |-> storage[k]]

storageEngine_removed(key) == IF key \in DOMAIN storage THEN Completion ELSE Null

addToIndex(i) == index \cup {i}

removeFromIndex(i) == index \ {i}

bindObject(entity) == entity

\* new MessageCache(storageEngine, boundObject)
MessageCache(obj) ==
    [kind |-> "MessageCache", ref |-> "new",
     boundObject |-> IF Truthy(obj) THEN bindObject(obj) ELSE Null]

\* `this`, as a result
Self(c, obj) == [kind |-> "MessageCache", ref |-> c, boundObject |-> obj]

----------------------------------------------------------------------------
(* Bookkeeping *)

InFlight(q) == pc[q] \notin {"idle", "done"}

Mutating(q) == InFlight(q) /\ frame[q].op \in {"update", "remove"}

Others(p, i) == {q \in Procs \ {p} : Mutating(q) /\ frame[q].id = i}

CanCall(p) == pc[p] \in {"idle", "done"} /\ calls < MaxCalls

Settle(l, f, a) == Append(l, <<"return", f, a>>)

\* the running update/remove of p met no other one on its id
clean == [p \in Procs |-> met[p] = {}]

Reads(p) == /\ met' = [met EXCEPT ![p] = {}]
            /\ UNCHANGED <<overlap, quiet>>

Mutates(p, i) ==
    /\ met' = [q \in Procs |-> IF q = p THEN {frame[o].op : o \in Others(p, i)}
                               ELSE IF q \in Others(p, i) THEN met[q] \cup {frame'[p].op}
                               ELSE met[q]]
    /\ overlap' = (overlap \/ Others(p, i) # {})
    /\ quiet' = [quiet EXCEPT ![i] = None]

Completed(p, i, what) ==
    quiet' = IF clean[p] THEN [quiet EXCEPT ![i] = what] ELSE quiet

----------------------------------------------------------------------------
Init ==
    /\ storage = [k \in {buildId("1")} |-> Message("1", "a")]
    /\ index = {"1"}
    /\ boundObject = [c \in Insts |-> IF c = "cu" THEN Null ELSE Message("1", "a")]
    /\ pc = [p \in Procs |-> "idle"]
    /\ frame = [p \in Procs |-> NoFrame]
    /\ result = [p \in Procs |-> NoResult]
    /\ log = [p \in Procs |-> <<>>]
    /\ calls = 0
    /\ overlap = FALSE
    /\ failed = FALSE
    /\ met = [p \in Procs |-> {}]
    /\ quiet = [i \in DataIds |-> None]

----------------------------------------------------------------------------
(* get(id), lines 31-40 *)

\* lines 31-35: up to the first await
get(p, c, i) ==
    /\ CanCall(p)
    /\ calls' = calls + 1
    /\ frame' = [frame EXCEPT ![p] = [NoFrame EXCEPT !.op = "get", !.this = c,
                                                     !.id = i, !.depth = 1]]
    /\ Reads(p)
    /\ IF Truthy(boundObject[c])
       THEN /\ pc' = [pc EXCEPT ![p] = "done"]
            /\ result' = [result EXCEPT ![p] = boundObject[c]]
            /\ log' = [log EXCEPT ![p] = <<>>]
       ELSE /\ pc' = [pc EXCEPT ![p] = "L35"]
            /\ result' = [result EXCEPT ![p] = NoResult]
            /\ log' = [log EXCEPT ![p] = <<<<"call", "get", buildId(i)>>>>]
    /\ UNCHANGED <<storage, index, boundObject, failed>>

\* get_L35 binding the receiver in place and returning it
get_L35_bindsSelf(p) ==
    /\ pc[p] = "L35"
    /\ LET message == storageEngine_get(buildId(frame[p].id)) IN
       /\ boundObject' = [boundObject EXCEPT ![frame[p].this] = message]
       /\ result' = [result EXCEPT ![p] =
                        IF ~Truthy(message) THEN Null ELSE Self(frame[p].this, message)]
    /\ pc' = [pc EXCEPT ![p] = "done"]
    /\ log' = [log EXCEPT ![p] = Settle(log[p], "get", buildId(frame[p].id))]
    /\ UNCHANGED <<storage, index, frame, calls, overlap, failed, met, quiet>>

\* lines 35-39: storageEngine.get settles
get_L35(p) ==
    /\ pc[p] = "L35"
    /\ LET message == storageEngine_get(buildId(frame[p].id)) IN
       result' = [result EXCEPT ![p] =
                     IF ~Truthy(message) THEN Null ELSE MessageCache(message)]
    /\ pc' = [pc EXCEPT ![p] = "done"]
    /\ log' = [log EXCEPT ![p] = Settle(log[p], "get", buildId(frame[p].id))]
    /\ UNCHANGED <<storage, index, boundObject, frame, calls, overlap, failed,
                   met, quiet>>

----------------------------------------------------------------------------
(* update(id, data), lines 48-60 *)

\* updateSync without lines 54-56: the id is never copied into the data
RECURSIVE updateSync_keepsId(_, _, _, _)
updateSync_keepsId(depth, bound, i, d) ==
    IF depth > MaxStack
    THEN [to |-> "throw", boundObject |-> bound, id |-> i, data |-> d, depth |-> depth]
    ELSE IF Truthy(bound)
         THEN updateSync_keepsId(depth + 1, bindObject(d), bindObject(d).id, d)
         ELSE [to |-> "L57", boundObject |-> bound, id |-> i, data |-> d, depth |-> depth]

\* updateSync with the receiver unbound before the nested call of line 51
RECURSIVE updateSync_unbinds(_, _, _, _)
updateSync_unbinds(depth, bound, i, d) ==
    IF depth > MaxStack
    THEN [to |-> "throw", boundObject |-> bound, id |-> i, data |-> d, depth |-> depth]
    ELSE IF Truthy(bound)
         THEN updateSync_unbinds(depth + 1, Null, bindObject(d).id, d)
         ELSE [to |-> "L57", boundObject |-> bound, id |-> i,
               data |-> IF Falsy(d.id) THEN [d EXCEPT !.id = i] ELSE d,
               depth |-> depth]

\* updateSync without the test of line 54: the id always overwrites data.id
RECURSIVE updateSync_forcesId(_, _, _, _)
updateSync_forcesId(depth, bound, i, d) ==
    IF depth > MaxStack
    THEN [to |-> "throw", boundObject |-> bound, id |-> i, data |-> d, depth |-> depth]
    ELSE IF Truthy(bound)
         THEN updateSync_forcesId(depth + 1, bindObject(d), bindObject(d).id, d)
         ELSE [to |-> "L57", boundObject |-> bound, id |-> i,
               data |-> [d EXCEPT !.id = i], depth |-> depth]

\* lines 48-57, the synchronous part: a bound receiver rebinds and calls
\* update again on itself (line 51); an unbound one sets the id and reaches
\* the await of line 57.  A call deeper than the stack throws.
RECURSIVE updateSync(_, _, _, _)
updateSync(depth, bound, i, d) ==
    IF depth > MaxStack
    THEN [to |-> "throw", boundObject |-> bound, id |-> i, data |-> d, depth |-> depth]
    ELSE IF Truthy(bound)
         THEN updateSync(depth + 1, bindObject(d), bindObject(d).id, d)
         ELSE [to |-> "L57", boundObject |-> bound, id |-> i,
               data |-> IF Falsy(d.id) THEN [d EXCEPT !.id = i] ELSE d,
               depth |-> depth]

\* update without the await of line 57: the upsert is issued at once
update_noAwait(p, c, i, d) ==
    /\ CanCall(p)
    /\ calls' = calls + 1
    /\ LET r == updateSync(1, boundObject[c], i, d) IN
       /\ boundObject' = [boundObject EXCEPT ![c] = r.boundObject]
       /\ frame' = [frame EXCEPT ![p] = [NoFrame EXCEPT !.op = "update", !.this = c,
                        !.id = r.id, !.data = r.data, !.given = d, !.depth = r.depth]]
       /\ IF r.to = "throw"
          THEN /\ pc' = [pc EXCEPT ![p] = "done"]
               /\ result' = [result EXCEPT ![p] = RangeError]
               /\ log' = [log EXCEPT ![p] = <<>>]
               /\ Reads(p)
          ELSE /\ pc' = [pc EXCEPT ![p] = "L58"]
               /\ result' = [result EXCEPT ![p] = NoResult]
               /\ log' = [log EXCEPT ![p] = <<<<"call", "addToIndex", r.id>>,
                                              <<"call", "upsert", buildId(r.id)>>>>]
               /\ Mutates(p, r.id)
    /\ UNCHANGED <<storage, index, failed>>

update(p, c, i, d) ==
    /\ CanCall(p)
    /\ calls' = calls + 1
    /\ LET r == updateSync(1, boundObject[c], i, d) IN
       /\ boundObject' = [boundObject EXCEPT ![c] = r.boundObject]
       /\ frame' = [frame EXCEPT ![p] = [NoFrame EXCEPT !.op = "update", !.this = c,
                        !.id = r.id, !.data = r.data, !.given = d, !.depth = r.depth]]
       /\ IF r.to = "throw"
          THEN /\ pc' = [pc EXCEPT ![p] = "done"]
               /\ result' = [result EXCEPT ![p] = RangeError]
               /\ log' = [log EXCEPT ![p] = <<>>]
               /\ Reads(p)
          ELSE /\ pc' = [pc EXCEPT ![p] = "L57"]
               /\ result' = [result EXCEPT ![p] = NoResult]
               /\ log' = [log EXCEPT ![p] = <<<<"call", "addToIndex", r.id>>>>]
               /\ Mutates(p, r.id)
    /\ UNCHANGED <<storage, index, failed>>

\* lines 57-58: addToIndex settles, the upsert is issued
update_L57(p) ==
    /\ pc[p] = "L57"
    /\ index' = addToIndex(frame[p].id)
    /\ pc' = [pc EXCEPT ![p] = "L58"]
    /\ log' = [log EXCEPT ![p] =
                  Append(Settle(log[p], "addToIndex", frame[p].id),
                         <<"call", "upsert", buildId(frame[p].id)>>)]
    /\ UNCHANGED <<storage, boundObject, frame, result, calls, overlap, failed,
                   met, quiet>>

\* update_L58 with an insert in place of the upsert: a stored entity is kept
update_L58_insertOnly(p) ==
    /\ pc[p] = "L58"
    /\ storage' = IF buildId(frame[p].id) \in DOMAIN storage THEN storage
                  ELSE storageEngine_upsert(buildId(frame[p].id), frame[p].data)
    /\ result' = [result EXCEPT ![p] =
                     IF frame[p].depth = 1 THEN MessageCache(frame[p].data)
                     ELSE Self(frame[p].this, boundObject[frame[p].this])]
    /\ pc' = [pc EXCEPT ![p] = "done"]
    /\ log' = [log EXCEPT ![p] = Settle(log[p], "upsert", buildId(frame[p].id))]
    /\ Completed(p, frame[p].id, [op |-> "update", data |-> frame[p].given])
    /\ UNCHANGED <<index, boundObject, frame, calls, overlap, failed, met>>

\* lines 58-59 (and 52 in the callers of a nested call): the upsert settles
update_L58(p) ==
    /\ pc[p] = "L58"
    /\ storage' = storageEngine_upsert(buildId(frame[p].id), frame[p].data)
    /\ result' = [result EXCEPT ![p] =
                     IF frame[p].depth = 1 THEN MessageCache(frame[p].data)
                     ELSE Self(frame[p].this, boundObject[frame[p].this])]
    /\ pc' = [pc EXCEPT ![p] = "done"]
    /\ log' = [log EXCEPT ![p] = Settle(log[p], "upsert", buildId(frame[p].id))]
    /\ Completed(p, frame[p].id, [op |-> "update", data |-> frame[p].given])
    /\ UNCHANGED <<index, boundObject, frame, calls, overlap, failed, met>>

----------------------------------------------------------------------------
(* remove(id), lines 67-78 *)

\* lines 67-71, the synchronous part: a bound receiver calls remove again on
\* itself with the bound id (line 69); an unbound one reaches the await of
\* line 71.
RECURSIVE removeSync(_, _, _)
removeSync(depth, bound, i) ==
    IF depth > MaxStack
    THEN [to |-> "throw", id |-> i, depth |-> depth]
    ELSE IF Truthy(bound)
         THEN removeSync(depth + 1, bound, bound.id)
         ELSE [to |-> "L71", id |-> i, depth |-> depth]

remove(p, c, i) ==
    /\ CanCall(p)
    /\ calls' = calls + 1
    /\ LET r == removeSync(1, boundObject[c], i) IN
       /\ frame' = [frame EXCEPT ![p] = [NoFrame EXCEPT !.op = "remove", !.this = c,
                                             !.id = r.id, !.depth = r.depth]]
       /\ IF r.to = "throw"
          THEN /\ pc' = [pc EXCEPT ![p] = "done"]
               /\ result' = [result EXCEPT ![p] = RangeError]
               /\ log' = [log EXCEPT ![p] = <<>>]
               /\ Reads(p)
          ELSE /\ pc' = [pc EXCEPT ![p] = "L71"]
               /\ result' = [result EXCEPT ![p] = NoResult]
               /\ log' = [log EXCEPT ![p] = <<<<"call", "get", buildId(r.id)>>>>]
               /\ Mutates(p, r.id)
    /\ UNCHANGED <<storage, index, boundObject, failed>>

\* remove_L71 without the test of line 72: the removal goes ahead regardless
remove_L71_always(p) ==
    /\ pc[p] = "L71"
    /\ pc' = [pc EXCEPT ![p] = "L73"]
    /\ log' = [log EXCEPT ![p] =
                  Append(Settle(log[p], "get", buildId(frame[p].id)),
                         <<"call", "removeFromIndex", frame[p].id>>)]
    /\ UNCHANGED <<storage, index, boundObject, frame, result, calls, overlap,
                   failed, met, quiet>>

\* remove_L71 with lines 73 and 74 swapped: the storage remove is issued first
remove_L71_storeFirst(p) ==
    /\ pc[p] = "L71"
    /\ LET message == storageEngine_get(buildId(frame[p].id)) IN
       IF Truthy(message)
       THEN /\ pc' = [pc EXCEPT ![p] = "L74"]
            /\ log' = [log EXCEPT ![p] =
                          Append(Settle(log[p], "get", buildId(frame[p].id)),
                                 <<"call", "remove", buildId(frame[p].id)>>)]
            /\ UNCHANGED <<result, quiet>>
       ELSE /\ pc' = [pc EXCEPT ![p] = "done"]
            /\ result' = [result EXCEPT ![p] = Null]
            /\ log' = [log EXCEPT ![p] = Settle(log[p], "get", buildId(frame[p].id))]
            /\ Completed(p, frame[p].id, [op |-> "remove", present |-> FALSE])
    /\ UNCHANGED <<storage, index, boundObject, frame, calls, overlap, failed, met>>

\* lines 71-73 / 75-76: storageEngine.get settles
remove_L71(p) ==
    /\ pc[p] = "L71"
    /\ LET message == storageEngine_get(buildId(frame[p].id)) IN
       IF Truthy(message)
       THEN /\ pc' = [pc EXCEPT ![p] = "L73"]
            /\ log' = [log EXCEPT ![p] =
                          Append(Settle(log[p], "get", buildId(frame[p].id)),
                                 <<"call", "removeFromIndex", frame[p].id>>)]
            /\ UNCHANGED <<result, quiet>>
       ELSE /\ pc' = [pc EXCEPT ![p] = "done"]
            /\ result' = [result EXCEPT ![p] = Null]
            /\ log' = [log EXCEPT ![p] = Settle(log[p], "get", buildId(frame[p].id))]
            /\ Completed(p, frame[p].id, [op |-> "remove", present |-> FALSE])
    /\ UNCHANGED <<storage, index, boundObject, frame, calls, overlap, failed, met>>

\* remove_L73 without the index removal of line 73
remove_L73_skip(p) ==
    /\ pc[p] = "L73"
    /\ pc' = [pc EXCEPT ![p] = "L74"]
    /\ log' = [log EXCEPT ![p] =
                  Append(Settle(log[p], "removeFromIndex", frame[p].id),
                         <<"call", "remove", buildId(frame[p].id)>>)]
    /\ UNCHANGED <<storage, index, boundObject, frame, result, calls, overlap,
                   failed, met, quiet>>

\* lines 73-74: removeFromIndex settles, the storage remove is issued
remove_L73(p) ==
    /\ pc[p] = "L73"
    /\ index' = removeFromIndex(frame[p].id)
    /\ pc' = [pc EXCEPT ![p] = "L74"]
    /\ log' = [log EXCEPT ![p] =
                  Append(Settle(log[p], "removeFromIndex", frame[p].id),
                         <<"call", "remove", buildId(frame[p].id)>>)]
    /\ UNCHANGED <<storage, boundObject, frame, result, calls, overlap, failed,
                   met, quiet>>

\* remove_L74 without the storage removal of line 74
remove_L74_keep(p) ==
    /\ pc[p] = "L74"
    /\ result' = [result EXCEPT ![p] = storageEngine_removed(buildId(frame[p].id))]
    /\ pc' = [pc EXCEPT ![p] = "done"]
    /\ log' = [log EXCEPT ![p] = Settle(log[p], "remove", buildId(frame[p].id))]
    /\ Completed(p, frame[p].id, [op |-> "remove", present |-> TRUE])
    /\ UNCHANGED <<storage, index, boundObject, frame, calls, overlap, failed, met>>

\* line 74: the storage remove settles; its result is the call's result
remove_L74(p) ==
    /\ pc[p] = "L74"
    /\ storage' = storageEngine_remove(buildId(frame[p].id))
    /\ result' = [result EXCEPT ![p] = storageEngine_removed(buildId(frame[p].id))]
    /\ pc' = [pc EXCEPT ![p] = "done"]
    /\ log' = [log EXCEPT ![p] = Settle(log[p], "remove", buildId(frame[p].id))]
    /\ Completed(p, frame[p].id, [op |-> "remove", present |-> TRUE])
    /\ UNCHANGED <<index, boundObject, frame, calls, overlap, failed, met>>

----------------------------------------------------------------------------
(* filter(fn, ids) and find(fn, ids), lines 86-100 *)

Matches(f, entity) == entity.content \in f

\* the orders in which the storage engine may yield the keys it looks at
KeyOrders(l) ==
    IF l = Null
    THEN {s \in [1..Cardinality(DOMAIN storage) -> DOMAIN storage] :
              \A a, b \in DOMAIN s : a # b => s[a] # s[b]}
    ELSE {[n \in 1..Len(l.items) |-> buildId(l.items[n])]}

RECURSIVE Yielded(_, _)
Yielded(f, keys) ==
    IF keys = <<>> THEN <<>>
    ELSE LET k == Head(keys) IN
         (IF k \in DOMAIN storage /\ Matches(f, storage[k]) THEN <<storage[k]>> ELSE <<>>)
             \o Yielded(f, Tail(keys))

storageEngine_filter(f, l) == {Yielded(f, keys) : keys \in KeyOrders(l)}

storageEngine_find(f, l) ==
    {IF Yielded(f, keys) = <<>> THEN Null ELSE Head(Yielded(f, keys)) :
        keys \in KeyOrders(l)}

\* lines 86-87: up to the await
filter(p, c, f, l) ==
    /\ CanCall(p)
    /\ calls' = calls + 1
    /\ frame' = [frame EXCEPT ![p] = [NoFrame EXCEPT !.op = "filter", !.this = c,
                                                     !.fn = f, !.ids = l, !.depth = 1]]
    /\ Reads(p)
    /\ pc' = [pc EXCEPT ![p] = "L87"]
    /\ result' = [result EXCEPT ![p] = NoResult]
    /\ log' = [log EXCEPT ![p] = <<<<"call", "filter", l>>>>]
    /\ UNCHANGED <<storage, index, boundObject, failed>>

\* filter_L87 without the map of line 88: the raw entities are returned
filter_L87_raw(p) ==
    /\ pc[p] = "L87"
    /\ \E message \in storageEngine_filter(frame[p].fn, frame[p].ids) :
          result' = [result EXCEPT ![p] = Arr(message)]
    /\ pc' = [pc EXCEPT ![p] = "done"]
    /\ log' = [log EXCEPT ![p] = Settle(log[p], "filter", frame[p].ids)]
    /\ UNCHANGED <<storage, index, boundObject, frame, calls, overlap, failed,
                   met, quiet>>

\* lines 87-88: storageEngine.filter settles
filter_L87(p) ==
    /\ pc[p] = "L87"
    /\ \E message \in storageEngine_filter(frame[p].fn, frame[p].ids) :
          result' = [result EXCEPT ![p] =
                        Arr([n \in 1..Len(message) |-> MessageCache(message[n])])]
    /\ pc' = [pc EXCEPT ![p] = "done"]
    /\ log' = [log EXCEPT ![p] = Settle(log[p], "filter", frame[p].ids)]
    /\ UNCHANGED <<storage, index, boundObject, frame, calls, overlap, failed,
                   met, quiet>>

\* lines 97-98: up to the await
find(p, c, f, l) ==
    /\ CanCall(p)
    /\ calls' = calls + 1
    /\ frame' = [frame EXCEPT ![p] = [NoFrame EXCEPT !.op = "find", !.this = c,
                                                     !.fn = f, !.ids = l, !.depth = 1]]
    /\ Reads(p)
    /\ pc' = [pc EXCEPT ![p] = "L98"]
    /\ result' = [result EXCEPT ![p] = NoResult]
    /\ log' = [log EXCEPT ![p] = <<<<"call", "find", l>>>>]
    /\ UNCHANGED <<storage, index, boundObject, failed>>

\* lines 98-99: storageEngine.find settles
find_L98(p) ==
    /\ pc[p] = "L98"
    /\ \E message \in storageEngine_find(frame[p].fn, frame[p].ids) :
          result' = [result EXCEPT ![p] = MessageCache(message)]
    /\ pc' = [pc EXCEPT ![p] = "done"]
    /\ log' = [log EXCEPT ![p] = Settle(log[p], "find", frame[p].ids)]
    /\ UNCHANGED <<storage, index, boundObject, frame, calls, overlap, failed,
                   met, quiet>>

----------------------------------------------------------------------------
(* A collaborator call fails: the await throws and the call's promise      *)
(* rejects with the collaborator's error (no try/catch in any method).     *)

Awaited(p) == log[p][Len(log[p])]

\* reject with a compensating rollback of the index after a failed storage call
reject_rollback(p) ==
    /\ InFlight(p)
    /\ result' = [result EXCEPT ![p] = BackendError(Awaited(p)[2])]
    /\ pc' = [pc EXCEPT ![p] = "done"]
    /\ log' = [log EXCEPT ![p] = Append(log[p], <<"throw", Awaited(p)[2], Awaited(p)[3]>>)]
    /\ failed' = TRUE
    /\ index' = IF pc[p] = "L58" THEN index \ {frame[p].id}
                ELSE IF pc[p] = "L74" THEN index \cup {frame[p].id}
                ELSE index
    /\ UNCHANGED <<storage, boundObject, frame, calls, overlap, met, quiet>>

\* reject with the index failure of update swallowed: the upsert is issued anyway
reject_swallow(p) ==
    /\ InFlight(p)
    /\ IF pc[p] = "L57"
       THEN /\ pc' = [pc EXCEPT ![p] = "L58"]
            /\ log' = [log EXCEPT ![p] =
                          Append(Append(log[p], <<"throw", "addToIndex", frame[p].id>>),
                                 <<"call", "upsert", buildId(frame[p].id)>>)]
            /\ UNCHANGED result
       ELSE /\ result' = [result EXCEPT ![p] = BackendError(Awaited(p)[2])]
            /\ pc' = [pc EXCEPT ![p] = "done"]
            /\ log' = [log EXCEPT ![p] =
                          Append(log[p], <<"throw", Awaited(p)[2], Awaited(p)[3]>>)]
    /\ failed' = TRUE
    /\ UNCHANGED <<storage, index, boundObject, frame, calls, overlap, met, quiet>>

reject(p) ==
    /\ InFlight(p)
    /\ result' = [result EXCEPT ![p] = BackendError(Awaited(p)[2])]
    /\ pc' = [pc EXCEPT ![p] = "done"]
    /\ log' = [log EXCEPT ![p] = Append(log[p], <<"throw", Awaited(p)[2], Awaited(p)[3]>>)]
    /\ failed' = TRUE
    /\ UNCHANGED <<storage, index, boundObject, frame, calls, overlap, met, quiet>>

----------------------------------------------------------------------------
Next ==
    \E p \in Procs :
        \/ \E c \in Insts, i \in Ids : get(p, c, i)
        \/ get_L35(p)
        \/ \E c \in Insts, i \in Ids, d \in Entities : update(p, c, i, d)
        \/ update_L57(p)
        \/ update_L58(p)
        \/ \E c \in Insts, i \in Ids : remove(p, c, i)
        \/ remove_L71(p)
        \/ remove_L73(p)
        \/ remove_L74(p)
        \/ \E c \in Insts, f \in Fns, l \in IdLists : filter(p, c, f, l)
        \/ filter_L87(p)
        \/ \E c \in Insts, f \in Fns, l \in IdLists : find(p, c, f, l)
        \/ find_L98(p)
        \/ reject(p)

Spec == Init /\ [][Next]_vars

----------------------------------------------------------------------------
(* Vocabulary of the properties *)

Range(s) == {s[n] : n \in DOMAIN s}

\* in l, every occurrence of b has an a before it
Precedes(l, a, b) ==
    \A n \in DOMAIN l : l[n] = b => \E m \in 1..(n - 1) : l[m] = a

StoredIds == {i \in DataIds : buildId(i) \in DOMAIN storage}

Quiescent == \A p \in Procs : ~InFlight(p)

Alone(p) == \A q \in Procs \ {p} : ~InFlight(q)

\* the receiver was bound when the call was made: update and remove nest
WasBound(p) == frame[p].depth > 1

\* a get / update / remove step of p that settles the call without a failure
Settles(p, line) ==
    /\ pc[p] = line
    /\ pc'[p] = "done"
    /\ result'[p].kind # "error"

----------------------------------------------------------------------------
(* C1: once update(i, d) on an unbound cache has completed and no other    *)
(* update or remove on i has run since, a get(i) on an unbound cache       *)
(* returns a new cache instance bound to d, with d.id set to i when d      *)
(* carried no id.                                                          *)

C1_GetAfterUpdate ==
    [][\A p \in Procs :
          (Settles(p, "L35") /\ quiet[frame[p].id].op = "update") =>
              LET i == frame[p].id
                  d == quiet[i].data
              IN  result'[p] = [kind |-> "MessageCache", ref |-> "new",
                                boundObject |-> [kind |-> "object",
                                    id |-> IF d.id = Undefined THEN i ELSE d.id,
                                    content |-> d.content]]]_vars

C1_Witness ==
    \E p \in Procs :
        /\ frame[p].op = "get" /\ pc[p] = "done"
        /\ quiet[frame[p].id].op = "update"
        /\ quiet[frame[p].id].data.id = Undefined
        /\ result[p].kind = "MessageCache"
        /\ result[p].boundObject.id = frame[p].id

----------------------------------------------------------------------------
(* C2, as claimed: whenever no call is in flight and no backend call has   *)
(* failed, the index holds exactly the ids with an entity in storage, also *)
(* after concurrent calls on the same id.                                  *)

C2_IndexMatchesStorage == (Quiescent /\ ~failed) => index = StoredIds

(* C2, amended: whenever no call is in flight, no backend call has failed  *)
(* and no two update / remove calls on the same id have overlapped, the    *)
(* index holds exactly the ids with an entity in storage.                  *)

C2_IndexMatchesStorageSerial ==
    (Quiescent /\ ~failed /\ ~overlap) => index = StoredIds

C2_Witness ==
    /\ Quiescent /\ ~failed /\ ~overlap
    /\ index = {"2"}
    /\ StoredIds = {"2"}

----------------------------------------------------------------------------
(* C3: an update on a bound instance ends by returning that instance, with *)
(* the data's id added to the index and the data upserted at its key.      *)

C3_BoundUpdate ==
    \A p \in Procs :
        (frame[p].op = "update" /\ WasBound(p) /\ pc[p] = "done") =>
            /\ result[p].kind = "MessageCache"
            /\ result[p].ref = frame[p].this
            /\ <<"return", "addToIndex", frame[p].given.id>> \in Range(log[p])
            /\ <<"return", "upsert", buildId(frame[p].given.id)>> \in Range(log[p])

----------------------------------------------------------------------------
(* C4: a remove on a bound instance ends without an exception, having      *)
(* looked up the bound entity's id and, when it was stored, removed it     *)
(* from the index and from storage.                                        *)

C4_BoundRemove ==
    \A p \in Procs :
        (frame[p].op = "remove" /\ WasBound(p) /\ pc[p] = "done" /\ ~failed) =>
            LET i == boundObject[frame[p].this].id IN
            /\ result[p] \in {Null, Completion}
            /\ <<"return", "get", buildId(i)>> \in Range(log[p])
            /\ result[p] = Completion =>
                  /\ <<"return", "removeFromIndex", i>> \in Range(log[p])
                  /\ <<"return", "remove", buildId(i)>> \in Range(log[p])

----------------------------------------------------------------------------
(* C5: a get on a bound instance returns that same cache instance, for     *)
(* every id, and issues no storage-engine call.                            *)

C5_BoundGet ==
    \A p \in Procs :
        (frame[p].op = "get" /\ Truthy(boundObject[frame[p].this])) =>
            /\ pc[p] = "done"
            /\ log[p] = <<>>
            /\ result[p].kind = "MessageCache"
            /\ result[p].ref = frame[p].this

----------------------------------------------------------------------------
(* C6: a find that ends without a failure returns null when storage        *)
(* yielded nothing, and otherwise a new instance bound to an entity; it    *)
(* never returns an instance without an entity.                            *)

C6_FindAbsent ==
    \A p \in Procs :
        (frame[p].op = "find" /\ pc[p] = "done" /\ result[p].kind # "error") =>
            \/ result[p] = Null
            \/ /\ result[p].kind = "MessageCache"
               /\ result[p].ref = "new"
               /\ result[p].boundObject # Null

----------------------------------------------------------------------------
(* C7: once remove(i) on an unbound cache has completed for a stored id i  *)
(* and no other update or remove on i has run since, the index does not    *)
(* contain i and a get(i) on an unbound cache returns null.                *)

Removed(i) == quiet[i].op = "remove" /\ quiet[i].present

C7_GetAfterRemove ==
    [][/\ \A i \in Ids : Removed(i)' => i \notin index'
       /\ \A p \in Procs :
             (Settles(p, "L35") /\ Removed(frame[p].id)) => result'[p] = Null]_vars

C7_Witness ==
    \E p \in Procs :
        /\ frame[p].op = "get" /\ pc[p] = "done"
        /\ Removed(frame[p].id)
        /\ result[p] = Null
        /\ frame[p].id \notin index

----------------------------------------------------------------------------
(* C8: when the existence check of an unbound remove(i) finds no entity    *)
(* under buildId(i), the call returns null, leaves the index and the       *)
(* storage as they are, and issues no removeFromIndex and no storage       *)
(* remove.                                                                 *)

C8_RemoveAbsent ==
    [][\A p \in Procs :
          (/\ pc[p] = "L71" /\ pc'[p] # "L71"
           /\ result'[p].kind # "error"
           /\ buildId(frame[p].id) \notin DOMAIN storage) =>
              /\ pc'[p] = "done"
              /\ result'[p] = Null
              /\ index' = index
              /\ storage' = storage
              /\ \A e \in Range(log'[p]) : e[2] \notin {"removeFromIndex", "remove"}]_vars

C8_Witness ==
    \E p \in Procs :
        /\ frame[p].op = "remove" /\ ~WasBound(p) /\ pc[p] = "done"
        /\ result[p] = Null
        /\ frame[p].id \notin StoredIds
        /\ log[p] = <<<<"call", "get", buildId(frame[p].id)>>,
                      <<"return", "get", buildId(frame[p].id)>>>>

----------------------------------------------------------------------------
(* C9: in every unbound update(id, data) the upsert at buildId(id) is      *)
(* issued only after the call's addToIndex(id) has returned.               *)

C9_IndexBeforeUpsert ==
    \A p \in Procs :
        frame[p].op = "update" =>
            /\ Precedes(log[p], <<"return", "addToIndex", frame[p].id>>,
                                <<"call", "upsert", buildId(frame[p].id)>>)
            /\ pc[p] = "L58" => <<"call", "upsert", buildId(frame[p].id)>> \in Range(log[p])
            /\ \A e \in Range(log[p]) : e[2] = "upsert" => e[3] = buildId(frame[p].id)

C9_Witness ==
    \E p \in Procs :
        /\ frame[p].op = "update" /\ pc[p] = "L58"
        /\ log[p] = <<<<"call", "addToIndex", frame[p].id>>,
                      <<"return", "addToIndex", frame[p].id>>,
                      <<"call", "upsert", buildId(frame[p].id)>>>>
        /\ frame[p].id \in index

----------------------------------------------------------------------------
(* C10: in every unbound remove(id) of a present entity the storage remove *)
(* is issued only after the call's removeFromIndex(id) has returned; while *)
(* such a remove runs with no other update or remove on its id, the id is  *)
(* never in the index without its entity in storage; and while a remove    *)
(* runs with no other call in flight (none having overlapped on an id or   *)
(* failed before), every id of the index has an entity in storage.         *)

C10_IndexBeforeRemove ==
    \A p \in Procs :
        frame[p].op = "remove" =>
            /\ Precedes(log[p], <<"return", "removeFromIndex", frame[p].id>>,
                                <<"call", "remove", buildId(frame[p].id)>>)
            /\ pc[p] = "L74" => <<"call", "remove", buildId(frame[p].id)>> \in Range(log[p])
            /\ (pc[p] \in {"L73", "L74"} /\ clean[p]) =>
                  ~(frame[p].id \in index /\ frame[p].id \notin StoredIds)
            /\ (InFlight(p) /\ Alone(p) /\ ~overlap /\ ~failed) => index \subseteq StoredIds

C10_Witness ==
    \E p \in Procs :
        /\ frame[p].op = "remove" /\ pc[p] = "L74"
        /\ Alone(p) /\ ~overlap /\ ~failed
        /\ frame[p].id \notin index
        /\ frame[p].id \in StoredIds

----------------------------------------------------------------------------
(* C11: when the storage mutation of an update or a remove fails after its *)
(* index mutation succeeded, the call ends with the storage engine's       *)
(* failure, the index is left as the index mutation made it (it still      *)
(* contains the id after a failed upsert and no longer contains it after a *)
(* failed storage remove, no other update or remove on the id having run   *)
(* meanwhile), storage is untouched and the storage call is not issued      *)
(* again.                                                                  *)

Count(l, e) == Cardinality({n \in DOMAIN l : l[n] = e})

C11_NoRollbackNoRetry ==
    [][\A p \in Procs :
          (pc[p] \in {"L58", "L74"} /\ pc'[p] # pc[p] /\ result'[p].kind = "error") =>
              LET i == frame[p].id
                  f == IF pc[p] = "L58" THEN "upsert" ELSE "remove"
              IN  /\ pc'[p] = "done"
                  /\ result'[p] = [kind |-> "error", name |-> "BackendFailure", from |-> f]
                  /\ index' = index
                  /\ storage' = storage
                  /\ clean[p] => (i \in index') = (f = "upsert")
                  /\ Count(log'[p], <<"call", f, buildId(i)>>) = 1
                  /\ log'[p][Len(log'[p])] = <<"throw", f, buildId(i)>>]_vars

C11_Witness ==
    \E p, q \in Procs :
        /\ p # q
        /\ frame[p].op = "update" /\ pc[p] = "done"
        /\ result[p] = BackendError("upsert")
        /\ frame[p].id \in index /\ frame[p].id \notin StoredIds
        /\ frame[q].op = "remove" /\ pc[q] = "done"
        /\ result[q] = BackendError("remove")
        /\ frame[q].id \notin index /\ frame[q].id \in StoredIds

----------------------------------------------------------------------------
(* C12: a bound instance stays bound over every step, its entity is never  *)
(* null, and its binding changes only by the rebinding of an update called *)
(* on it, to that update's data.                                           *)

C12_BoundStaysBound ==
    [][\A c \in Insts :
          Truthy(boundObject[c]) =>
              /\ Truthy(boundObject'[c])
              /\ boundObject'[c] \in Entities
              /\ boundObject'[c] # boundObject[c] =>
                    \E p \in Procs :
                        /\ ~InFlight(p) /\ frame'[p].op = "update" /\ frame'[p].this = c
                        /\ calls' = calls + 1
                        /\ boundObject'[c] = frame'[p].given]_vars

C12_Witness ==
    \E p \in Procs :
        /\ frame[p].op = "update" /\ frame[p].this = "cb" /\ pc[p] = "done"
        /\ boundObject["cb"] = Message("2", "b")
        /\ \E q \in Procs \ {p} :
              frame[q].op \in {"get", "remove", "filter", "find"} /\ frame[q].this = "cb"
                  /\ pc[q] = "done"

----------------------------------------------------------------------------
(* C13: a filter that ends without a failure returns one of the sequences  *)
(* the storage engine's filter yields for (fn, ids), in that order, every  *)
(* entity wrapped in a new bound instance, satisfying fn and stored under  *)
(* one of ids; no step of a filter changes the index or the storage.       *)

Wrapped(entity) == [kind |-> "MessageCache", ref |-> "new", boundObject |-> entity]

C13_FilterWraps ==
    [][\A p \in Procs :
          /\ (frame'[p].op = "filter" /\ pc'[p] # pc[p]) =>
                 index' = index /\ storage' = storage
          /\ Settles(p, "L87") =>
                 LET f == frame[p].fn
                     l == frame[p].ids
                     r == result'[p]
                 IN  /\ r.kind = "array"
                     /\ \E message \in storageEngine_filter(f, l) :
                           /\ Len(r.items) = Len(message)
                           /\ \A n \in 1..Len(message) : r.items[n] = Wrapped(message[n])
                     /\ \A n \in 1..Len(r.items) :
                           /\ r.items[n].boundObject.content \in f
                           /\ \E k \in DOMAIN storage :
                                 /\ storage[k] = r.items[n].boundObject
                                 /\ l # Null =>
                                       \E m \in 1..Len(l.items) : k = "message." \o l.items[m]]_vars

C13_Witness ==
    \E p \in Procs :
        /\ frame[p].op = "filter" /\ pc[p] = "done"
        /\ frame[p].ids = Arr(<<"2", "1">>)
        /\ result[p].kind = "array"
        /\ Len(result[p].items) = 2
        /\ result[p].items[1] = Wrapped(Message("2", "a"))
        /\ result[p].items[2] = Wrapped(Message("1", "a"))

----------------------------------------------------------------------------
(* C14: an unbound instance stays unbound over every step; a binding       *)
(* changes only on a bound instance, at the start of an update called on   *)
(* it; and a call on an unbound receiver that ends without a failure       *)
(* returns new instances (get, update, find, and each element of filter),  *)
(* null (get, remove) or the storage engine's removal result (remove),     *)
(* never the receiver.                                                     *)

IsNew(r) == r.kind = "MessageCache" /\ r.ref = "new"

C14_UnboundStaysUnbound ==
    [][/\ \A c \in Insts :
             /\ ~Truthy(boundObject[c]) => ~Truthy(boundObject'[c])
             /\ boundObject'[c] # boundObject[c] =>
                   /\ Truthy(boundObject[c])
                   /\ \E p \in Procs : ~InFlight(p) /\ frame'[p].op = "update"
                                          /\ frame'[p].this = c /\ calls' = calls + 1
       /\ \A p \in Procs :
             (/\ pc'[p] = "done" /\ pc[p] # "done"
              /\ ~Truthy(boundObject[frame'[p].this])
              /\ result'[p].kind # "error") =>
                 LET r == result'[p]
                     o == frame'[p].op
                 IN  /\ o = "get" => r = Null \/ (IsNew(r) /\ r.boundObject \in Entities)
                     /\ o = "update" => IsNew(r) /\ r.boundObject \in Entities
                     /\ o = "find" => IsNew(r)
                     /\ o = "filter" =>
                           r.kind = "array" /\ \A n \in 1..Len(r.items) : IsNew(r.items[n])
                     /\ o = "remove" => r \in {Null, Completion}]_vars

C14_Witness ==
    \E p, q \in Procs :
        /\ p # q
        /\ boundObject["cu"] = Null
        /\ frame[p].op = "update" /\ frame[p].this = "cu" /\ pc[p] = "done"
        /\ IsNew(result[p]) /\ result[p].boundObject = frame[p].data
        /\ frame[q].op = "get" /\ frame[q].this = "cu" /\ pc[q] = "done"
        /\ IsNew(result[q])

----------------------------------------------------------------------------
(* C15: when two unbound updates of the same id have both completed, the   *)
(* index contains the id and storage holds under buildId(id) the data of   *)
(* one of them: that of the call whose upsert settled last.                *)

C15_LastUpsertWins ==
    [][\A p, q \in Procs :
          (/\ p # q
           /\ frame'[p].op = "update" /\ frame'[q].op = "update"
           /\ frame'[p].depth = 1 /\ frame'[q].depth = 1
           /\ frame'[p].id = frame'[q].id
           /\ pc'[p] = "done" /\ pc'[q] = "done"
           /\ result'[p].kind # "error" /\ result'[q].kind # "error") =>
              LET i == frame'[p].id
                  k == "message." \o i
              IN  /\ i \in index'
                  /\ k \in DOMAIN storage'
                  /\ storage'[k] \in {frame'[p].data, frame'[q].data}
                  /\ pc[p] = "L58" => storage'[k] = frame'[p].data]_vars

C15_Witness ==
    \E p, q \in Procs :
        /\ p # q
        /\ frame[p].op = "update" /\ frame[q].op = "update"
        /\ frame[p].depth = 1 /\ frame[q].depth = 1
        /\ frame[p].id = frame[q].id
        /\ pc[p] = "done" /\ pc[q] = "done"
        /\ result[p].kind # "error" /\ result[q].kind # "error"
        /\ ~clean[p] /\ ~clean[q]
        /\ frame[p].data # frame[q].data
        /\ storage[buildId(frame[p].id)] = frame[p].data
        /\ frame[p].id \in index

----------------------------------------------------------------------------
(* C16: when addToIndex fails in an update or removeFromIndex fails in a   *)
(* remove, the call ends with that failure, the dependent upsert or        *)
(* storage remove is never issued, and the failing step leaves storage     *)
(* unchanged.                                                              *)

IndexThrow(l) ==
    \E n \in DOMAIN l : l[n][1] = "throw" /\ l[n][2] \in {"addToIndex", "removeFromIndex"}

C16_IndexFailureStops ==
    [][\A p \in Procs :
          IndexThrow(log'[p]) =>
              /\ pc'[p] = "done"
              /\ result'[p] = [kind |-> "error", name |-> "BackendFailure",
                               from |-> IF frame'[p].op = "update" THEN "addToIndex"
                                        ELSE "removeFromIndex"]
              /\ \A e \in Range(log'[p]) : e[2] \notin {"upsert", "remove"}
              /\ ~IndexThrow(log[p]) => storage' = storage /\ index' = index]_vars

C16_Witness ==
    \E p, q \in Procs :
        /\ p # q
        /\ frame[p].op = "update" /\ pc[p] = "done"
        /\ result[p] = BackendError("addToIndex")
        /\ frame[p].id \notin StoredIds /\ frame[p].id \notin index
        /\ frame[q].op = "remove" /\ pc[q] = "done"
        /\ result[q] = BackendError("removeFromIndex")
        /\ frame[q].id \in StoredIds /\ frame[q].id \in index

----------------------------------------------------------------------------
(* C17: buildId(id) is "message" followed by "." and the id ("42" gives    *)
(* "message.42"); distinct ids give distinct keys; and every key a get, an *)
(* update or a remove passes to the storage engine, and every key of the   *)
(* storage, is "message." followed by the id of the call.                  *)

SampleIds == Ids \cup {"42", "4", "", ".", "1.", ".1", "2.1", "message", "message.1"}

C17_BuildId ==
    /\ buildId("42") = "message.42"
    /\ \A i \in SampleIds : buildId(i) = "message." \o i
    /\ \A i1, i2 \in SampleIds : i1 # i2 => buildId(i1) # buildId(i2)
    /\ \A p \in Procs : \A e \in Range(log[p]) :
          e[2] \in {"get", "upsert", "remove"} => e[3] = "message." \o frame[p].id
    /\ DOMAIN storage \subseteq {"message." \o i : i \in Ids}

C17_Witness ==
    \E p, q \in Procs :
        /\ frame[p].op = "remove" /\ pc[p] = "done"
        /\ <<"return", "get", "message.1">> \in Range(log[p])
        /\ <<"return", "remove", "message.1">> \in Range(log[p])
        /\ frame[q].op = "update" /\ pc[q] = "done"
        /\ <<"return", "upsert", "message.2">> \in Range(log[q])
        /\ DOMAIN storage = {"message.2"}

----------------------------------------------------------------------------
(* C18, as claimed: every entity stored under buildId(i) carries the id i. *)

C18_StoredIdIsKey == \A i \in StoredIds : storage[buildId(i)].id = i

(* C18, amended: the entity an update(i, d) stores under buildId(i) carries *)
(* the id i when d carried no id or carried i, and keeps d's own id when d *)
(* carried another one; the id the call added to the index is i.           *)

C18_StoredIdFromData ==
    [][\A p \in Procs :
          Settles(p, "L58") =>
              LET i == frame[p].id
                  d == frame[p].given
                  k == "message." \o i
              IN  /\ k \in DOMAIN storage'
                  /\ storage'[k].content = d.content
                  /\ d.id \in {Undefined, i} => storage'[k].id = i
                  /\ d.id \notin {Undefined, i} => storage'[k].id = d.id
                  /\ <<"return", "addToIndex", i>> \in Range(log[p])]_vars

C18_Witness ==
    \E p, q \in Procs :
        /\ p # q
        /\ frame[p].op = "update" /\ pc[p] = "done" /\ frame[p].depth = 1
        /\ frame[p].given.id = Undefined
        /\ {frame[p].id, frame[q].id} \subseteq StoredIds
        /\ storage[buildId(frame[p].id)].id = frame[p].id
        /\ frame[q].op = "update" /\ pc[q] = "done" /\ frame[q].depth = 1
        /\ frame[q].given.id \notin {Undefined, frame[q].id}
        /\ storage[buildId(frame[q].id)].id = frame[q].given.id
        /\ {frame[p].id, frame[q].id} \subseteq index

----------------------------------------------------------------------------
(* C19, as claimed: when two overlapping unbound removes of a stored id    *)
(* have both completed, the id is absent from the index and from storage,  *)
(* and at most one of the two calls issued removeFromIndex and the storage *)
(* remove.                                                                 *)

BothRemoved(p, q) ==
    /\ p # q
    /\ frame[p].op = "remove" /\ frame[q].op = "remove"
    /\ frame[p].depth = 1 /\ frame[q].depth = 1
    /\ frame[p].id = frame[q].id
    /\ pc[p] = "done" /\ pc[q] = "done"
    /\ result[p].kind # "error" /\ result[q].kind # "error"
    \* the two removes ran together, and neither met an update of the id
    /\ met[p] = {"remove"} /\ met[q] = {"remove"}
    /\ \E r \in {p, q} : <<"call", "removeFromIndex", frame[r].id>> \in Range(log[r])

Removes(p) ==
    \/ <<"call", "removeFromIndex", frame[p].id>> \in Range(log[p])
    \/ <<"call", "remove", buildId(frame[p].id)>> \in Range(log[p])

C19_AtMostOneRemoves ==
    \A p, q \in Procs :
        BothRemoved(p, q) =>
            /\ frame[p].id \notin index
            /\ frame[p].id \notin StoredIds
            /\ ~(Removes(p) /\ Removes(q))

(* C19, amended: when two unbound removes of a stored id that ran together *)
(* with each other and with no update of that id have both completed, the  *)
(* id is absent from the index and from storage; both calls may have       *)
(* issued removeFromIndex and the storage remove.                          *)

C19_BothRemovesEndAbsent ==
    \A p, q \in Procs :
        BothRemoved(p, q) =>
            /\ frame[p].id \notin index
            /\ frame[p].id \notin StoredIds

C19_Witness ==
    \E p, q \in Procs :
        /\ BothRemoved(p, q)
        /\ Removes(p) /\ Removes(q)
        /\ result[p] = Completion /\ result[q] = Null
        /\ frame[p].id \notin index
        /\ frame[p].id \notin StoredIds

====
